---- MODULE Spec2Model ----
(***************************************************************************)
(* beatperf: path resolution over nested snapshots, the Generic series     *)
(* group, and the broadcast of snapshots from the driver loop (live poll   *)
(* or file replay) to the watcher tasks.                                   *)
(*                                                                         *)
(* Strings are sequences of one-character strings, so that splitting on    *)
(* "." and re-joining with "." are computed, not assumed.                  *)
(* A JSON value is a record [t, v, m]: t is "num" (v the number), "obj"    *)
(* (m the mapping from keys to values) or "str" (any other JSON type).     *)
(* f64 quantities are kept as integers in thousandths (Milli), u64         *)
(* quantities as plain integers.                                           *)
(***************************************************************************)
EXTENDS Integers, Sequences, FiniteSets, TLC

VARIABLES
    r_doc,      \* resolver harness: the document
    r_path,     \* resolver harness: the dotted path
    r_out,      \* resolver harness: result of get_root_elem
    r_pc,       \* resolver harness: "input" | "resolved"
    g,          \* a Generic group: user_key, data, datapoints, ty
    g_fed,      \* the snapshots that group was updated with, in order
    realtime,   \* TRUE: watch (live poll); FALSE: read_file (replay)
    configured, \* the watchers the command line asks for
    driver,     \* position of watch / read_file
    outcome,    \* "none" while running, then what it returned: "ok", "err" (a
                \* line that does not parse) or "send err" (send with no receiver)
    cancelled,  \* the CancellationToken has been cancelled
    serial,     \* number of snapshots fetched (live) or lines read (replay)
    sent,       \* the snapshots sent on the channel, in order (the i-th has id i)
    closed,     \* the Sender has been dropped
    aborting,   \* the JoinSet has been dropped: every task is aborted
    res,        \* "none", or what the last get_stat returned: "Ok" or "Err"
    nd_file,    \* the --ndjson log: whether it is open, and its lines
    w_pc,       \* per watcher: position of the task
    rx2,        \* per watcher: number of snapshots its Receiver is past
    watch,      \* per watcher: its group
    count,      \* per watcher: the local counter of run_watch
    w_applied,  \* per watcher: ids of the snapshots applied to its group
    w_interim,  \* per watcher: plot() calls made inside the loop
    w_final,    \* per watcher: plot() calls made after the loop
    w_errors,   \* per watcher: plot() errors logged
    w_first,    \* per watcher: "none", or whether the first recv to return found
                \* more than Capacity snapshots sent: "overrun" or "in time"
    w_fail,     \* per watcher: "none", or how its recv failed
    f_doc,      \* flatten harness: the sub-document
    f_out,      \* flatten harness: result of flatten_map
    f_pc,       \* flatten harness: "input" | "flattened"
    stats,      \* a StatsGroup: fields, updates
    s_fed,      \* the snapshots that group was updated with, in order
    view        \* what the last read-only call on the group returned

resolveVars == <<r_doc, r_path, r_out, r_pc>>
genericVars == <<g, g_fed>>
driverVars == <<realtime, configured, driver, outcome, cancelled, serial, sent, closed, aborting,
                res, nd_file>>
watcherVars == <<w_pc, rx2, watch, count, w_applied, w_interim, w_final, w_errors, w_first, w_fail>>
flattenVars == <<f_doc, f_out, f_pc>>
statsVars == <<stats, s_fed>>
vars == <<r_doc, r_path, r_out, r_pc, g, g_fed,
          realtime, configured, driver, outcome, cancelled, serial, sent, closed, aborting,
          res, nd_file,
          w_pc, rx2, watch, count, w_applied, w_interim, w_final, w_errors, w_first, w_fail,
          f_doc, f_out, f_pc, stats, s_fed, view>>

----------------------------------------------------------------------------
(* Strings *)

DOT == "."

Chars == {"a", "b", DOT}

MaxPathLen == 5

RECURSIVE StringsUpTo(_)
StringsUpTo(n) ==
    IF n = 0 THEN {<<>>}
    ELSE LET shorter == StringsUpTo(n - 1)
         IN  shorter \cup {Append(s, c) : s \in {x \in shorter : Len(x) = n - 1}, c \in Chars}

\* format!("{}.{}", a, b)
DotJoin(a, b) == a \o <<DOT>> \o b

\* str::split(".") : always at least one segment, segments may be empty
RECURSIVE Split(_)
Split(s) ==
    IF \A i \in 1..Len(s) : s[i] # DOT THEN <<s>>
    ELSE LET i == CHOOSE j \in 1..Len(s) : s[j] = DOT /\ \A k \in 1..(j - 1) : s[k] # DOT
         IN  <<SubSeq(s, 1, i - 1)>> \o Split(SubSeq(s, i + 1, Len(s)))

\* Iterator::reduce(|acc, e| format!("{}.{}", acc, e)) on a non-empty list
RECURSIVE ReduceJoin(_)
ReduceJoin(list) ==
    IF Len(list) = 1 THEN list[1]
    ELSE ReduceJoin(<<DotJoin(list[1], list[2])>> \o SubSeq(list, 3, Len(list)))

----------------------------------------------------------------------------
(* JSON values *)

EmptyDoc == <<>>

Num(n) == [t |-> "num", v |-> n, m |-> EmptyDoc]
Obj(d) == [t |-> "obj", v |-> 0, m |-> d]
Other  == [t |-> "str", v |-> 0, m |-> EmptyDoc]
None   == [t |-> "none", v |-> 0, m |-> EmptyDoc]
\* a panic of the resolver (unwrap of an empty key list)
Panic  == [t |-> "panic", v |-> 0, m |-> EmptyDoc]

\* serde_json::Map::get
MapGet(data, key) == IF key \in DOMAIN data THEN data[key] ELSE None

----------------------------------------------------------------------------
(* get_root_elem *)

\* a slip: recurses with the next segment only instead of the re-joined rest
RECURSIVE get_root_elem_nojoin(_, _)
get_root_elem_nojoin(data, nested_key) ==
    LET key_list == Split(nested_key)
    IN  IF Len(key_list) = 1 THEN MapGet(data, key_list[1])
        ELSE LET child == MapGet(data, Head(key_list))
             IN  IF child.t = "obj"
                 THEN get_root_elem_nojoin(child.m, Tail(key_list)[1])
                 ELSE None

\* a slip: a non-mapping node on the way is returned as the match
RECURSIVE get_root_elem_partial(_, _)
get_root_elem_partial(data, nested_key) ==
    LET key_list == Split(nested_key)
    IN  IF Len(key_list) = 1 THEN MapGet(data, key_list[1])
        ELSE LET child == MapGet(data, Head(key_list))
             IN  IF child.t = "obj"
                 THEN get_root_elem_partial(child.m, ReduceJoin(Tail(key_list)))
                 ELSE child

RECURSIVE get_root_elem(_, _)
get_root_elem(data, nested_key) ==
    LET key_list == Split(nested_key)
    IN  IF Len(key_list) = 1 THEN MapGet(data, key_list[1])
        ELSE IF Len(key_list) = 0 THEN Panic
        ELSE LET child_key == Head(key_list)
                 child     == MapGet(data, child_key)
             IN  IF child.t = "none" THEN None
                 ELSE IF child.t = "obj"
                      THEN get_root_elem(child.m, ReduceJoin(Tail(key_list)))
                      ELSE None

----------------------------------------------------------------------------
(* flatten_map *)

\* byte order of the characters used in keys
AlphabetOrder == <<DOT, "a", "b", "c">>

CharRank(c) == CHOOSE i \in 1..Len(AlphabetOrder) : AlphabetOrder[i] = c

\* String ordering: lexicographic, a proper prefix first
RECURSIVE LexLess(_, _)
LexLess(s1, s2) ==
    IF s1 = <<>> THEN s2 # <<>>
    ELSE IF s2 = <<>> THEN FALSE
    ELSE IF Head(s1) = Head(s2) THEN LexLess(Tail(s1), Tail(s2))
    ELSE CharRank(Head(s1)) < CharRank(Head(s2))

\* iteration order of serde_json::Map (a BTreeMap: ascending keys)
RECURSIVE SortKeys(_)
SortKeys(S) ==
    IF S = {} THEN <<>>
    ELSE LET mn == CHOOSE k \in S : \A o \in S \ {k} : LexLess(k, o)
         IN  <<mn>> \o SortKeys(S \ {mn})

RECURSIVE flatten_map(_)
RECURSIVE flatten_entries(_, _)
\* a slip: a leaf that is not a number is listed too
RECURSIVE flatten_entries_all(_, _)
flatten_entries_all(data, keys) ==
    IF keys = <<>> THEN <<>>
    ELSE LET key == Head(keys)
             val == data[key]
             here == IF val.t = "obj"
                     THEN LET inner == flatten_map(val.m)
                          IN  [j \in 1..Len(inner) |-> DotJoin(key, inner[j])]
                     ELSE <<key>>
         IN  here \o flatten_entries_all(data, Tail(keys))

\* the loop body of flatten_map over the keys still to visit
flatten_entries(data, keys) ==
    IF keys = <<>> THEN <<>>
    ELSE LET key == Head(keys)
             val == data[key]
             here == IF val.t = "num" THEN <<key>>
                     ELSE IF val.t = "obj"
                          THEN LET inner == flatten_map(val.m)
                               IN  [j \in 1..Len(inner) |-> DotJoin(key, inner[j])]
                          ELSE <<>>
         IN  here \o flatten_entries(data, Tail(keys))

flatten_map(data) == flatten_entries(data, SortKeys(DOMAIN data))

----------------------------------------------------------------------------
(* Numeric types and processors *)

\* f64 values are held in thousandths
Milli == 1000

\* serde_json::from_value::<ty>(val)
Decode(ty, val) ==
    IF val.t # "num" THEN [ok |-> FALSE, v |-> 0]
    ELSE IF ty = "u64"
         THEN IF val.v >= 0 THEN [ok |-> TRUE, v |-> val.v] ELSE [ok |-> FALSE, v |-> 0]
         ELSE [ok |-> TRUE, v |-> val.v * Milli]

\* Processor::process
Process(proc, raw) ==
    CASE proc = "noop" -> raw
      [] proc = "mem"  -> (raw * Milli) \div 1000
      [] proc = "pct"  -> raw * 100

\* Generic<u64, NoOpProcess<u64>> (Output, ProcessDB, KernelTracing, Pipeline)
U64NoOp == [inT |-> "u64", outT |-> "u64", proc |-> "noop"]
\* Generic<f64, NoOpProcess<f64>> (CustomMetrics)
F64NoOp == [inT |-> "f64", outT |-> "f64", proc |-> "noop"]
\* Generic<f64, MemoryProcessor> (MemoryMetrics)
MemProc == [inT |-> "u64", outT |-> "f64", proc |-> "mem"]
\* Generic<f64, PctProcessor> (Pipeline)
PctProc == [inT |-> "f64", outT |-> "f64", proc |-> "pct"]

GroupTypes == {U64NoOp, F64NoOp, MemProc, PctProc}

----------------------------------------------------------------------------
(* Generic *)

Generic_new(group, ty) ==
    [user_key |-> group, data |-> <<>>, datapoints |-> 0, ty |-> ty]

\* a slip: a number that does not decode is registered all the same
RECURSIVE init_metrics_lenient(_, _, _)
init_metrics_lenient(self, root, n) ==
    IF n = 0 THEN self.data
    ELSE LET acc == init_metrics_lenient(self, root, n - 1)
             metric_field == self.user_key[n]
             new_data == get_root_elem(root, metric_field)
         IN  IF new_data.t = "num"
             THEN Append(acc, [key |-> metric_field, values |-> <<>>])
             ELSE IF new_data.t = "obj"
                  THEN LET flat_values == flatten_map(new_data.m)
                       IN  acc \o [j \in 1..Len(flat_values) |->
                                     [key |-> DotJoin(metric_field, flat_values[j]), values |-> <<>>]]
                  ELSE acc

\* init_metrics over the first n requested paths
RECURSIVE init_metrics_upto(_, _, _)
init_metrics_upto(self, root, n) ==
    IF n = 0 THEN self.data
    ELSE LET acc == init_metrics_upto(self, root, n - 1)
             metric_field == self.user_key[n]
             new_data == get_root_elem(root, metric_field)
         IN  IF new_data.t = "num"
             THEN LET raw == Decode(self.ty.outT, new_data)
                  IN  IF raw.ok
                      THEN Append(acc, [key |-> metric_field, values |-> <<raw.v>>])
                      ELSE acc
             ELSE IF new_data.t = "obj"
                  THEN LET flat_values == flatten_map(new_data.m)
                       IN  acc \o [j \in 1..Len(flat_values) |->
                                     [key |-> DotJoin(metric_field, flat_values[j]), values |-> <<>>]]
                  ELSE acc

init_metrics(self, root) == init_metrics_upto(self, root, Len(self.user_key))

\* the body of the loop of update for one registered series
update_metric(self, metric, root) ==
    LET new_data == get_root_elem(root, metric.key)
    IN  IF new_data.t = "none" THEN metric
        ELSE LET raw == Decode(self.ty.inT, new_data)
             IN  IF raw.ok
                 THEN [metric EXCEPT !.values = Append(@, Process(self.ty.proc, raw.v))]
                 ELSE metric

\* a slip: values are put in front instead of appended
Generic_update_prepend(self, root) ==
    LET data1 == IF self.data = <<>> THEN init_metrics(self, root) ELSE self.data
        upd(metric) ==
            LET new_data == get_root_elem(root, metric.key)
                raw == Decode(self.ty.inT, new_data)
            IN  IF raw.ok
                THEN [metric EXCEPT !.values = <<Process(self.ty.proc, raw.v)>> \o @]
                ELSE metric
    IN  [self EXCEPT !.data = [j \in 1..Len(data1) |-> upd(data1[j])],
                     !.datapoints = @ + 1]

\* a slip: discovery is run again on every update and new keys are added
Generic_update_rediscover(self, root) ==
    LET found == init_metrics([self EXCEPT !.data = <<>>], root)
        fresh == SelectSeq(found, LAMBDA m : \A j \in 1..Len(self.data) : self.data[j].key # m.key)
        data1 == IF self.data = <<>> THEN found ELSE self.data \o fresh
    IN  [self EXCEPT !.data = [j \in 1..Len(data1) |-> update_metric(self, data1[j], root)],
                     !.datapoints = @ + 1]

Generic_update(self, root) ==
    LET data1 == IF self.data = <<>> THEN init_metrics(self, root) ELSE self.data
    IN  [self EXCEPT !.data = [j \in 1..Len(data1) |-> update_metric(self, data1[j], root)],
                     !.datapoints = @ + 1]

\* plot(): key -> values; a later entry with the same key replaces an earlier
Generic_plot(self) ==
    [k \in {self.data[j].key : j \in 1..Len(self.data)} |->
        LET last == CHOOSE j \in 1..Len(self.data) :
                        /\ self.data[j].key = k
                        /\ \A i \in (j + 1)..Len(self.data) : self.data[i].key # k
        IN  self.data[last].values]

Generic_datapoints(self) == self.datapoints

----------------------------------------------------------------------------
(* MetricField and StatsGroup *)

\* serde_json::Number::as_f64
AsF64(n) == n * Milli

\* KbMetricFields::from((key, hidden)): data holds f64 values
KbMetricFields(key, is_hidden) ==
    [variant |-> "kb", key |-> key, data |-> <<>>, hidden |-> is_hidden]

\* GenericMetricFields::from((key, hidden)): data holds serde_json Numbers
GenericMetricFields(key, is_hidden) ==
    [variant |-> "generic", key |-> key, data |-> <<>>, hidden |-> is_hidden]

\* Iterator::reduce(f64::max) on a non-empty list
RECURSIVE ReduceMax(_)
ReduceMax(list) ==
    IF Len(list) = 1 THEN list[1]
    ELSE LET acc == ReduceMax(SubSeq(list, 1, Len(list) - 1))
             e   == list[Len(list)]
         IN  IF e > acc THEN e ELSE acc

MetricField_name(f) == f.key

MetricField_hidden(f) == f.hidden

MetricField_push(f, value) ==
    IF f.variant = "kb"
    THEN [f EXCEPT !.data = Append(@, AsF64(value))]
    ELSE [f EXCEPT !.data = Append(@, value)]

MetricField_last(f) ==
    IF f.data = <<>> THEN 0
    ELSE IF f.variant = "kb" THEN f.data[Len(f.data)]
    ELSE AsF64(f.data[Len(f.data)])

MetricField_generate_data(f) ==
    IF f.variant = "kb" THEN f.data
    ELSE [i \in 1..Len(f.data) |-> AsF64(f.data[i]) \div 1000]

MetricField_max(f) ==
    IF f.data = <<>> THEN 0
    ELSE IF f.variant = "kb" THEN ReduceMax(f.data)
    ELSE ReduceMax([i \in 1..Len(f.data) |-> AsF64(f.data[i])])

\* StatsGroup::from(Vec<Box<dyn MetricField>>)
StatsGroup_from(value) == [fields |-> value, updates |-> 0]

\* a slip: an absent key pushes a placeholder
StatsGroup_update_pad(self, root) ==
    [self EXCEPT
        !.updates = @ + 1,
        !.fields = [i \in 1..Len(self.fields) |->
                      LET paths == self.fields[i]
                          new_data == get_root_elem(root, MetricField_name(paths))
                      IN  IF new_data.t = "num" THEN MetricField_push(paths, new_data.v)
                          ELSE IF new_data.t = "none" THEN MetricField_push(paths, 0)
                          ELSE paths]]

\* a slip: the counter counts the updates that brought a value
StatsGroup_update_counted(self, root) ==
    [self EXCEPT
        !.updates = IF \E i \in 1..Len(self.fields) :
                          get_root_elem(root, MetricField_name(self.fields[i])).t = "num"
                    THEN @ + 1 ELSE @,
        !.fields = [i \in 1..Len(self.fields) |->
                      LET paths == self.fields[i]
                          new_data == get_root_elem(root, MetricField_name(paths))
                      IN  IF new_data.t = "num" THEN MetricField_push(paths, new_data.v)
                          ELSE paths]]

\* a slip: the loop over the fields ends at the first value that is not a
\* number
StatsGroup_update_stop(self, root) ==
    [self EXCEPT
        !.updates = @ + 1,
        !.fields = [i \in 1..Len(self.fields) |->
                      LET paths == self.fields[i]
                          new_data == get_root_elem(root, MetricField_name(paths))
                          stopped == \E j \in 1..(i - 1) :
                                       get_root_elem(root, MetricField_name(self.fields[j])).t
                                           \notin {"num", "none"}
                      IN  IF new_data.t = "num" /\ ~stopped
                          THEN MetricField_push(paths, new_data.v)
                          ELSE paths]]

StatsGroup_update(self, root) ==
    [self EXCEPT
        !.updates = @ + 1,
        !.fields = [i \in 1..Len(self.fields) |->
                      LET paths == self.fields[i]
                          new_data == get_root_elem(root, MetricField_name(paths))
                      IN  IF new_data.t = "num" THEN MetricField_push(paths, new_data.v)
                          ELSE paths]]

StatsGroup_len(self) == self.updates

\* a slip: hidden fields are plotted too
StatsGroup_plot_all(self) ==
    [k \in {MetricField_name(self.fields[j]) : j \in 1..Len(self.fields)} |->
        LET last == CHOOSE j \in 1..Len(self.fields) :
                        /\ MetricField_name(self.fields[j]) = k
                        /\ \A i \in (j + 1)..Len(self.fields) :
                              MetricField_name(self.fields[i]) # k
        IN  MetricField_generate_data(self.fields[last])]

\* plot(): name -> generate_data() of the fields that are not hidden; a
\* later field with the same name replaces an earlier
StatsGroup_plot(self) ==
    LET shown == {j \in 1..Len(self.fields) : ~MetricField_hidden(self.fields[j])}
    IN  [k \in {MetricField_name(self.fields[j]) : j \in shown} |->
            LET last == CHOOSE j \in shown :
                            /\ MetricField_name(self.fields[j]) = k
                            /\ \A i \in shown : i > j => MetricField_name(self.fields[i]) # k
            IN  MetricField_generate_data(self.fields[last])]

----------------------------------------------------------------------------
(* Documents the resolver is exercised on *)

KA == <<"a">>
KB == <<"b">>
KAB == <<"a", DOT, "b">>     \* a key that itself contains a dot
KE == <<>>                   \* the empty key

LeafValues == {Num(1), Other}

FlatDocs == UNION {[S -> LeafValues] : S \in SUBSET {KA, KB}}

NestedDocs == UNION {[S -> LeafValues \cup {Obj(d) : d \in FlatDocs}] : S \in SUBSET {KA, KB}}

DeepDocs ==
    { KA :> Obj(KB :> Obj(KA :> Num(7) @@ KB :> Other)),
      KA :> Obj(KB :> Obj(KA :> Obj(KA :> Num(42)) @@ KB :> Num(45))),
      KA :> Obj(KB :> Num(3)) @@ KB :> Obj(KA :> Obj(KB :> Num(4))),
      KAB :> Num(9) @@ KA :> Obj(KB :> Num(2)),
      KA :> Obj(KAB :> Num(5)),
      KE :> Obj(KA :> Num(6) @@ KE :> Num(8)) @@ KA :> Num(1) }

ResolveDocs == NestedDocs \cup DeepDocs

Paths == StringsUpTo(MaxPathLen)

----------------------------------------------------------------------------
(* Snapshots and requested paths the Generic group is exercised on *)

PA  == <<"a">>                  \* the path a
PAB == <<"a", DOT, "b">>        \* the path a.b

\* the shape of create_nested_json: a = {a: {b: v3}, b: v2}
NestedJson(v3, v2) == KA :> Obj(KA :> Obj(KB :> Num(v3)) @@ KB :> Num(v2))

GenDocs ==
    { NestedJson(42, 5),
      NestedJson(63, 8),
      KA :> Num(7),
      KA :> Num(-2),
      KA :> Other,
      KB :> Num(1),
      KA :> Obj(KA :> Other @@ KB :> Num(-1)),
      KA :> Obj(KAB :> Num(9) @@ KB :> Num(2)),
      KA :> Obj(KA :> Obj(KA :> Num(1) @@ KB :> Num(42)) @@ KB :> Num(5)),
      KA :> Obj(KB :> Num(3)) }

UserKeyLists == { <<PA>>, <<PAB>>, <<PA, PAB>>, <<PAB, PA>>, <<PA, PA>> }

MaxUpdates == 3

PAAB == <<"a", DOT, "a", DOT, "b">>   \* the path a.a.b
PB   == <<"b">>                       \* the path b

\* the snapshots a StatsGroup is exercised on
StatsDocs == GenDocs \cup {NestedJson(42, 21), NestedJson(1000, 1000)}

\* field lists in the manner of test_nested_key, test_hidden_metrics,
\* mem_fields (some hidden), cpu_fields and custom_fields (none hidden, a
\* name may be given twice)
FieldLists ==
    { <<GenericMetricFields(PAAB, FALSE)>>,
      <<GenericMetricFields(PAAB, TRUE), GenericMetricFields(PAB, FALSE)>>,
      <<KbMetricFields(PAB, FALSE), KbMetricFields(PAAB, TRUE)>>,
      <<GenericMetricFields(PA, FALSE), GenericMetricFields(PAB, FALSE), GenericMetricFields(PB, FALSE)>>,
      <<GenericMetricFields(PAB, FALSE), GenericMetricFields(PAB, FALSE)>> }

\* what a call on a group returned
NoView == [op |-> "none", out |-> <<>>]

\* nd_file: None, or the file opened for appending
NoFile == [open |-> FALSE, lines |-> <<>>]
NewFile == [open |-> TRUE, lines |-> <<>>]

\* a response body that is not a JSON object; the text of SnapDoc(k) is k
NotJson == 0

\* anyhow::Result of get_stat
Err == [kind |-> "Err", v |-> 0]
Ok(v) == [kind |-> "Ok", v |-> v]

\* serde_json::from_str::<Map<String, Value>>(text)
from_str(text) == IF text = NotJson THEN Err ELSE Ok(text)
Returned(op, out) == [op |-> op, out |-> out]

----------------------------------------------------------------------------
(* Generic group harness *)

Watchers == {1, 2}

\* nothing is running: the state of a process that runs neither watch nor
\* read_file
WatchIdle ==
    /\ realtime = FALSE
    /\ configured = {}
    /\ driver = "idle"
    /\ outcome = "none"
    /\ cancelled = FALSE
    /\ serial = 0
    /\ sent = <<>>
    /\ closed = FALSE
    /\ aborting = FALSE
    /\ res = "none"
    /\ nd_file = NoFile
    /\ w_pc = [w \in Watchers |-> "Unspawned"]
    /\ rx2 = [w \in Watchers |-> 0]
    /\ watch = [w \in Watchers |-> Generic_new(<<>>, U64NoOp)]
    /\ count = [w \in Watchers |-> 0]
    /\ w_applied = [w \in Watchers |-> <<>>]
    /\ w_interim = [w \in Watchers |-> 0]
    /\ w_final = [w \in Watchers |-> 0]
    /\ w_errors = [w \in Watchers |-> 0]
    /\ w_first = [w \in Watchers |-> "none"]
    /\ w_fail = [w \in Watchers |-> "none"]

GenericIdle ==
    /\ g = Generic_new(<<>>, U64NoOp)
    /\ g_fed = <<>>

ResolveIdle ==
    /\ r_doc = EmptyDoc
    /\ r_path = <<>>
    /\ r_out = None
    /\ r_pc = "idle"

FlattenIdle ==
    /\ f_doc = EmptyDoc
    /\ f_out = <<>>
    /\ f_pc = "idle"

StatsIdle ==
    /\ stats = StatsGroup_from(<<>>)
    /\ s_fed = <<>>

ViewIdle == view = NoView

GenericInit ==
    /\ \E group \in UserKeyLists, ty \in GroupTypes : g = Generic_new(group, ty)
    /\ g_fed = <<>>
    /\ ResolveIdle
    /\ WatchIdle
    /\ FlattenIdle
    /\ StatsIdle
    /\ ViewIdle

GenericUpdate ==
    /\ Len(g_fed) < MaxUpdates
    /\ \E root \in GenDocs :
        /\ g' = Generic_update(g, root)
        /\ g_fed' = Append(g_fed, root)
    /\ view' = Returned("update", <<>>)
    /\ UNCHANGED <<resolveVars, driverVars, watcherVars, flattenVars, statsVars>>

GenericNext == GenericUpdate

SpecGeneric == GenericInit /\ [][GenericNext]_vars

----------------------------------------------------------------------------
(* Resolver harness *)

ResolveInit ==
    /\ r_doc \in ResolveDocs
    /\ r_path \in Paths
    /\ r_out = None
    /\ r_pc = "input"
    /\ GenericIdle
    /\ WatchIdle
    /\ FlattenIdle
    /\ StatsIdle
    /\ ViewIdle

Resolve ==
    /\ r_pc = "input"
    /\ r_out' = get_root_elem(r_doc, r_path)
    /\ r_pc' = "resolved"
    /\ UNCHANGED <<r_doc, r_path>>
    /\ UNCHANGED <<genericVars, driverVars, watcherVars, flattenVars, statsVars, view>>

ResolveNext == Resolve

SpecResolve == ResolveInit /\ [][ResolveNext]_vars

----------------------------------------------------------------------------
(* flatten_map harness *)

\* the sub-document l2 of create_nested_json(42, 45): {a: {b: 42}, b: 45}
FlattenExample == KA :> Obj(KB :> Num(42)) @@ KB :> Num(45)

FlattenDocs == ResolveDocs \cup {FlattenExample}

FlattenInit ==
    /\ f_doc \in FlattenDocs
    /\ f_out = <<>>
    /\ f_pc = "input"
    /\ ResolveIdle
    /\ GenericIdle
    /\ WatchIdle
    /\ StatsIdle
    /\ ViewIdle

Flatten ==
    /\ f_pc = "input"
    /\ f_out' = flatten_map(f_doc)
    /\ f_pc' = "flattened"
    /\ UNCHANGED f_doc
    /\ UNCHANGED <<resolveVars, genericVars, driverVars, watcherVars, statsVars, view>>

FlattenNext == Flatten

SpecFlatten == FlattenInit /\ [][FlattenNext]_vars

----------------------------------------------------------------------------
(* StatsGroup harness *)

StatsInit ==
    /\ \E value \in FieldLists : stats = StatsGroup_from(value)
    /\ s_fed = <<>>
    /\ ResolveIdle
    /\ GenericIdle
    /\ WatchIdle
    /\ FlattenIdle
    /\ ViewIdle

StatsUpdate ==
    /\ Len(s_fed) < MaxUpdates
    /\ \E root \in StatsDocs :
        /\ stats' = StatsGroup_update(stats, root)
        /\ s_fed' = Append(s_fed, root)
    /\ view' = Returned("update", <<>>)
    /\ UNCHANGED <<resolveVars, genericVars, driverVars, watcherVars, flattenVars>>

StatsPlot ==
    /\ view' = Returned("plot", StatsGroup_plot(stats))
    /\ UNCHANGED <<resolveVars, genericVars, driverVars, watcherVars, flattenVars, statsVars>>

StatsLen ==
    /\ view' = Returned("len", StatsGroup_len(stats))
    /\ UNCHANGED <<resolveVars, genericVars, driverVars, watcherVars, flattenVars, statsVars>>

\* print_last_value: name and last() of every field
StatsPrintLastValue ==
    /\ view' = Returned("print_last_value",
                        [i \in 1..Len(stats.fields) |->
                            <<MetricField_name(stats.fields[i]), MetricField_last(stats.fields[i])>>])
    /\ UNCHANGED <<resolveVars, genericVars, driverVars, watcherVars, flattenVars, statsVars>>

StatsNext ==
    \/ StatsUpdate
    \/ StatsPlot
    \/ StatsLen
    \/ StatsPrintLastValue

SpecStats == StatsInit /\ [][StatsNext]_vars

----------------------------------------------------------------------------
(* Either kind of group, with its read-only calls *)

GenericPlot ==
    /\ view' = Returned("plot", Generic_plot(g))
    /\ UNCHANGED <<resolveVars, genericVars, driverVars, watcherVars, flattenVars, statsVars>>

GenericDatapoints ==
    /\ view' = Returned("datapoints", Generic_datapoints(g))
    /\ UNCHANGED <<resolveVars, genericVars, driverVars, watcherVars, flattenVars, statsVars>>

GroupsInit == GenericInit \/ StatsInit

GroupsNext ==
    \/ g.user_key # <<>> /\ (GenericUpdate \/ GenericPlot \/ GenericDatapoints)
    \/ stats.fields # <<>> /\ StatsNext

SpecGroups == GroupsInit /\ [][GroupsNext]_vars

----------------------------------------------------------------------------
(* CustomMetrics harness *)

\* Option<Vec<String>>
NoFields == [some |-> FALSE, v |-> <<>>]
SomeFields(mf) == [some |-> TRUE, v |-> mf]

\* the literal ".beat.runtime.goroutines" of CustomMetrics::new, with its
\* leading dot, over the segments of create_nested_json: ".a.a.b"
DefaultField == <<DOT>> \o PAAB

\* CustomMetrics::new(fields): the group of the watcher
CustomMetrics_new(fields) ==
    IF fields.some THEN Generic_new(fields.v, F64NoOp)
    ELSE Generic_new(<<DefaultField>>, F64NoOp)

CustomInit ==
    /\ \E fields \in {NoFields} \cup {SomeFields(mf) : mf \in UserKeyLists} :
            g = CustomMetrics_new(fields)
    /\ g_fed = <<>>
    /\ ResolveIdle
    /\ WatchIdle
    /\ FlattenIdle
    /\ StatsIdle
    /\ ViewIdle

CustomNext == GenericUpdate \/ GenericPlot

SpecCustom == CustomInit /\ [][CustomNext]_vars

----------------------------------------------------------------------------
(* The broadcast channel, the watcher tasks and the driver *)

\* broadcast::channel(100): the number of snapshots the channel retains,
\* scaled down
Capacity == 2

\* count % 5 == 0
Cadence == 5

\* bound on the snapshots fetched (live) or the lines read (replay)
MaxSnapshots == 6

\* the snapshot with a given id, in the shape of create_nested_json
SnapDoc(id) == NestedJson(40 + id, id)

\* T::new(added_metrics): watcher 1 a CustomMetrics with --metrics a,
\* the others an Output-like group over the path a.b
NewWatcher(w) ==
    IF w = 1 THEN Generic_new(<<PA>>, F64NoOp) ELSE Generic_new(<<PAB>>, U64NoOp)

\* the groups a watcher can hold: those reached from grp by updates with
\* snapshots of ascending ids above lo
RECURSIVE GroupsFrom(_, _)
GroupsFrom(grp, lo) ==
    {grp} \cup UNION {GroupsFrom(Generic_update(grp, SnapDoc(id)), id) :
                        id \in (lo + 1)..MaxSnapshots}

WatchGroups == UNION {GroupsFrom(NewWatcher(w), 0) : w \in Watchers}

\* watch.update(&dat), tabulated over the groups a watcher can hold and the
\* snapshots that can be sent
WatchUpdate ==
    [grp \in WatchGroups, id \in 1..MaxSnapshots |-> Generic_update(grp, SnapDoc(id))]

\* a slip: a receiver that is behind is handed the newest snapshot
Recv_latest(nxt, pos, isClosed) ==
    IF nxt < pos THEN [kind |-> "ok", next |-> pos]
    ELSE IF isClosed THEN [kind |-> "closed", next |-> nxt]
    ELSE [kind |-> "pending", next |-> nxt]

\* Receiver::recv for a receiver that is past nxt of the pos snapshots sent
Recv(nxt, pos, isClosed) ==
    IF pos - nxt > Capacity THEN [kind |-> "lagged", next |-> pos - Capacity]
    ELSE IF nxt < pos THEN [kind |-> "ok", next |-> nxt + 1]
    ELSE IF isClosed THEN [kind |-> "closed", next |-> nxt]
    ELSE [kind |-> "pending", next |-> nxt]

\* what a first recv finds: more snapshots sent than the channel retains,
\* or not
FirstRecv(pos) == IF pos > Capacity THEN "overrun" ELSE "in time"

\* a slip: an overrun is skipped over and the loop goes on
AfterRecv_catchup(kind) ==
    IF kind = "ok" THEN "Applied"
    ELSE IF kind = "lagged" THEN "Polling"
    ELSE "Draining"

\* the select! of run_watch: Ok(dat) runs the branch, anything else breaks
AfterRecv(kind) == IF kind = "ok" THEN "Applied" ELSE "Draining"

\* a slip: the cadence is not checked
ShouldRender_always(rt, cnt) == rt

\* a slip: the mode is not checked
ShouldRender_anymode(rt, cnt) == cnt % Cadence = 0

\* realtime && count % 5 == 0
ShouldRender(rt, cnt) == rt /\ cnt % Cadence = 0

\* a task holds its Receiver until it completes or is dropped
ReceiverCount ==
    Cardinality({w \in Watchers :
        w_pc[w] \in {"Uninitialized", "Polling", "Parked", "Applied", "Draining"}})

\* dropping the JoinSet aborts every task: one that is not being polled is
\* dropped on the spot, one that is being polled runs on to its next await
AbortAll(pcs) ==
    [w \in Watchers |->
        IF pcs[w] = "Uninitialized" THEN "Dropped"
        ELSE IF pcs[w] = "Parked" THEN "Aborted"
        ELSE pcs[w]]

WatchInit ==
    /\ realtime \in BOOLEAN
    /\ configured \in SUBSET Watchers
    /\ driver = "setup"
    /\ outcome = "none"
    /\ cancelled = FALSE
    /\ serial = 0
    /\ sent = <<>>
    /\ closed = FALSE
    /\ aborting = FALSE
    /\ res = "none"
    /\ nd_file = NoFile
    /\ w_pc = [w \in Watchers |-> "Unspawned"]
    /\ rx2 = [w \in Watchers |-> 0]
    /\ watch = [w \in Watchers |-> Generic_new(<<>>, U64NoOp)]
    /\ count = [w \in Watchers |-> 0]
    /\ w_applied = [w \in Watchers |-> <<>>]
    /\ w_interim = [w \in Watchers |-> 0]
    /\ w_final = [w \in Watchers |-> 0]
    /\ w_errors = [w \in Watchers |-> 0]
    /\ w_first = [w \in Watchers |-> "none"]
    /\ w_fail = [w \in Watchers |-> "none"]
    /\ ResolveIdle
    /\ GenericIdle
    /\ FlattenIdle
    /\ StatsIdle
    /\ ViewIdle

\* generate_readers: run_watch subscribes and spawns each configured watcher
GenerateReaders ==
    /\ driver = "setup"
    /\ w_pc' = [w \in Watchers |-> IF w \in configured THEN "Uninitialized" ELSE w_pc[w]]
    /\ rx2' = [w \in Watchers |-> IF w \in configured THEN Len(sent) ELSE rx2[w]]
    /\ driver' = IF realtime THEN "select" ELSE "reading"
    /\ UNCHANGED <<realtime, configured, res, nd_file, outcome, cancelled, serial, sent, closed, aborting>>
    /\ UNCHANGED <<watch, count, w_applied, w_interim, w_final, w_errors, w_first, w_fail>>
    /\ UNCHANGED <<resolveVars, genericVars, flattenVars, statsVars, view>>

\* the task is polled for the first time: T::new, count = 0
WatcherStart(w) ==
    /\ w_pc[w] = "Uninitialized"
    /\ watch' = [watch EXCEPT ![w] = NewWatcher(w)]
    /\ count' = [count EXCEPT ![w] = 0]
    /\ w_pc' = [w_pc EXCEPT ![w] = "Polling"]
    /\ UNCHANGED <<rx2, w_applied, w_interim, w_final, w_errors, w_first, w_fail>>
    /\ UNCHANGED <<driverVars, resolveVars, genericVars, flattenVars, statsVars, view>>

\* what rx2.recv() returns to watcher w when polled now
RecvOf(w) == Recv(rx2[w], Len(sent), closed)

\* rx2.recv() returns Ok(dat): watch.update(&dat); count += 1
WatcherRecvOk(w) ==
    /\ w_pc[w] \in {"Polling", "Parked"}
    /\ RecvOf(w).kind = "ok"
    /\ rx2' = [rx2 EXCEPT ![w] = RecvOf(w).next]
    /\ w_first' = [w_first EXCEPT ![w] = IF @ = "none" THEN FirstRecv(Len(sent)) ELSE @]
    /\ w_pc' = [w_pc EXCEPT ![w] = AfterRecv("ok")]
    /\ watch' = [watch EXCEPT ![w] = WatchUpdate[@, sent[RecvOf(w).next]]]
    /\ count' = [count EXCEPT ![w] = @ + 1]
    /\ w_applied' = [w_applied EXCEPT ![w] = Append(@, sent[RecvOf(w).next])]
    /\ UNCHANGED <<w_interim, w_final, w_errors, w_fail>>
    /\ UNCHANGED <<driverVars, resolveVars, genericVars, flattenVars, statsVars, view>>

\* rx2.recv() returns Err (Closed or Lagged): the else branch of the select!
WatcherRecvErr(w) ==
    /\ w_pc[w] \in {"Polling", "Parked"}
    /\ RecvOf(w).kind \in {"closed", "lagged"}
    /\ rx2' = [rx2 EXCEPT ![w] = RecvOf(w).next]
    /\ w_first' = [w_first EXCEPT ![w] = IF @ = "none" THEN FirstRecv(Len(sent)) ELSE @]
    /\ w_pc' = [w_pc EXCEPT ![w] = AfterRecv(RecvOf(w).kind)]
    /\ w_fail' = [w_fail EXCEPT ![w] = RecvOf(w).kind]
    /\ UNCHANGED <<watch, count, w_applied, w_interim, w_final, w_errors>>
    /\ UNCHANGED <<driverVars, resolveVars, genericVars, flattenVars, statsVars, view>>

\* rx2.recv() is pending: the task yields, and an aborted task ends there
WatcherPark(w) ==
    /\ w_pc[w] = "Polling"
    /\ RecvOf(w).kind = "pending"
    /\ w_pc' = [w_pc EXCEPT ![w] = IF aborting THEN "Aborted" ELSE "Parked"]
    /\ UNCHANGED <<rx2, watch, count, w_applied, w_interim, w_final, w_errors, w_first, w_fail>>
    /\ UNCHANGED <<driverVars, resolveVars, genericVars, flattenVars, statsVars, view>>

\* a slip: an error of the interim plot() is propagated and ends the task
WatcherCadence_fatal(w) ==
    /\ w_pc[w] = "Applied"
    /\ IF ShouldRender(realtime, count[w])
       THEN /\ w_interim' = [w_interim EXCEPT ![w] = @ + 1]
            /\ \E failed \in BOOLEAN :
                 /\ w_errors' = [w_errors EXCEPT ![w] = IF failed THEN @ + 1 ELSE @]
                 /\ w_pc' = [w_pc EXCEPT ![w] = IF failed THEN "Terminated" ELSE "Polling"]
       ELSE /\ UNCHANGED <<w_interim, w_errors>>
            /\ w_pc' = [w_pc EXCEPT ![w] = "Polling"]
    /\ UNCHANGED <<rx2, watch, count, w_applied, w_final, w_first, w_fail>>
    /\ UNCHANGED <<driverVars, resolveVars, genericVars, flattenVars, statsVars, view>>

\* the cadence check after the select!, with the interim plot() it may make
WatcherCadence(w) ==
    /\ w_pc[w] = "Applied"
    /\ IF ShouldRender(realtime, count[w])
       THEN /\ w_interim' = [w_interim EXCEPT ![w] = @ + 1]
            /\ \E failed \in BOOLEAN :
                 w_errors' = [w_errors EXCEPT ![w] = IF failed THEN @ + 1 ELSE @]
       ELSE UNCHANGED <<w_interim, w_errors>>
    /\ w_pc' = [w_pc EXCEPT ![w] = "Polling"]
    /\ UNCHANGED <<rx2, watch, count, w_applied, w_final, w_first, w_fail>>
    /\ UNCHANGED <<driverVars, resolveVars, genericVars, flattenVars, statsVars, view>>

\* a slip: the task completes without the plot() after the loop
WatcherFinal_noplot(w) ==
    /\ w_pc[w] = "Draining"
    /\ w_pc' = [w_pc EXCEPT ![w] = "Terminated"]
    /\ UNCHANGED <<rx2, watch, count, w_applied, w_interim, w_final, w_errors, w_first, w_fail>>
    /\ UNCHANGED <<driverVars, resolveVars, genericVars, flattenVars, statsVars, view>>

\* the plot() after the loop; the task completes and its Receiver is dropped
WatcherFinal(w) ==
    /\ w_pc[w] = "Draining"
    /\ w_final' = [w_final EXCEPT ![w] = @ + 1]
    /\ \E failed \in BOOLEAN :
         w_errors' = [w_errors EXCEPT ![w] = IF failed THEN @ + 1 ELSE @]
    /\ w_pc' = [w_pc EXCEPT ![w] = "Terminated"]
    /\ UNCHANGED <<rx2, watch, count, w_applied, w_interim, w_first, w_fail>>
    /\ UNCHANGED <<driverVars, resolveVars, genericVars, flattenVars, statsVars, view>>

\* ctrl-c: the signal task cancels the token
Cancel ==
    /\ realtime
    /\ driver \in {"select", "fetching"}
    /\ ~cancelled
    /\ cancelled' = TRUE
    /\ UNCHANGED <<realtime, configured, res, nd_file, driver, outcome, serial, sent, closed, aborting>>
    /\ UNCHANGED <<watcherVars, resolveVars, genericVars, flattenVars, statsVars, view>>

\* the select! of watch takes the interval.tick() branch
DriverTick ==
    /\ driver = "select"
    /\ serial < MaxSnapshots
    /\ driver' = "fetching"
    /\ res' = "none"
    /\ UNCHANGED <<realtime, configured, nd_file, outcome, cancelled, serial, sent, closed, aborting>>
    /\ UNCHANGED <<watcherVars, resolveVars, genericVars, flattenVars, statsVars, view>>

\* the body the endpoint answers with next, when it answers with a snapshot:
\* bodies are numbered, the k-th being the text of SnapDoc(k)
NextBody ==
    1 + IF nd_file.open
        THEN Cardinality({n \in 1..Len(nd_file.lines) : nd_file.lines[n] # NotJson})
        ELSE Len(sent)

\* what reqwest::get(..).error_for_status()?.text() can give: an error, a
\* body that is not a JSON object, or the next snapshot
Responses ==
    {[ok |-> FALSE, text |-> NotJson], [ok |-> TRUE, text |-> NotJson], [ok |-> TRUE, text |-> NextBody]}

\* a slip: the body is not written to the log
get_stat_notee(test_get, wrote, fname) ==
    IF ~test_get.ok THEN [result |-> Err, fname |-> fname]
    ELSE [result |-> from_str(test_get.text), fname |-> fname]

\* get_stat: fetch, writeln! to the log if there is one, then parse; wrote
\* tells whether the writeln! succeeded
get_stat(test_get, wrote, fname) ==
    IF ~test_get.ok THEN [result |-> Err, fname |-> fname]
    ELSE IF fname.open /\ ~wrote THEN [result |-> Err, fname |-> fname]
    ELSE [result |-> from_str(test_get.text),
          fname |-> IF fname.open THEN [fname EXCEPT !.lines = Append(@, test_get.text)]
                    ELSE fname]

\* a slip: a send that waits while a live receiver has a full backlog
DriverFetched_backpressure ==
    /\ driver = "fetching"
    /\ \A w \in Watchers :
         w_pc[w] \in {"Uninitialized", "Polling", "Parked", "Applied", "Draining"}
            => Len(sent) - rx2[w] < Capacity
    /\ serial' = serial + 1
    /\ \E test_get \in Responses, wrote \in BOOLEAN :
         LET got == get_stat(test_get, wrote, nd_file)
         IN  /\ nd_file' = got.fname
             /\ res' = got.result.kind
             /\ sent' = IF ReceiverCount > 0 /\ got.result.kind = "Ok"
                        THEN Append(sent, got.result.v) ELSE sent
    /\ driver' = "select"
    /\ UNCHANGED <<realtime, configured, outcome, cancelled, closed, aborting>>
    /\ UNCHANGED <<watcherVars, resolveVars, genericVars, flattenVars, statsVars, view>>

\* a slip: an Err of get_stat is propagated with ? and ends watch
DriverFetched_fatal ==
    /\ driver = "fetching"
    /\ serial' = serial + 1
    /\ \E test_get \in Responses, wrote \in BOOLEAN :
         LET got == get_stat(test_get, wrote, nd_file)
         IN  /\ nd_file' = got.fname
             /\ res' = got.result.kind
             /\ sent' = IF ReceiverCount > 0 /\ got.result.kind = "Ok"
                        THEN Append(sent, got.result.v) ELSE sent
             /\ IF got.result.kind = "Ok"
                THEN /\ driver' = "select"
                     /\ UNCHANGED <<outcome, aborting, w_pc>>
                ELSE /\ driver' = "dropping"
                     /\ outcome' = "err"
                     /\ aborting' = TRUE
                     /\ w_pc' = AbortAll(w_pc)
    /\ UNCHANGED <<realtime, configured, cancelled, closed>>
    /\ UNCHANGED <<rx2, watch, count, w_applied, w_interim, w_final, w_errors, w_first, w_fail>>
    /\ UNCHANGED <<resolveVars, genericVars, flattenVars, statsVars, view>>

\* the interval.tick() branch once get_stat has returned: the snapshot is
\* sent if the result is Ok and a receiver exists, an Err is logged
DriverFetched ==
    /\ driver = "fetching"
    /\ serial' = serial + 1
    /\ \E test_get \in Responses, wrote \in BOOLEAN :
         LET got == get_stat(test_get, wrote, nd_file)
         IN  /\ nd_file' = got.fname
             /\ res' = got.result.kind
             /\ sent' = IF ReceiverCount > 0 /\ got.result.kind = "Ok"
                        THEN Append(sent, got.result.v) ELSE sent
    /\ driver' = "select"
    /\ UNCHANGED <<realtime, configured, outcome, cancelled, closed, aborting>>
    /\ UNCHANGED <<watcherVars, resolveVars, genericVars, flattenVars, statsVars, view>>

\* the select! of watch takes the cancelled() branch: return Ok(()), which
\* drops the JoinSet first
DriverReturn ==
    /\ driver = "select"
    /\ cancelled
    /\ outcome' = "ok"
    /\ aborting' = TRUE
    /\ w_pc' = AbortAll(w_pc)
    /\ driver' = "dropping"
    /\ UNCHANGED <<realtime, configured, res, nd_file, cancelled, serial, sent, closed>>
    /\ UNCHANGED <<rx2, watch, count, w_applied, w_interim, w_final, w_errors, w_first, w_fail>>
    /\ UNCHANGED <<resolveVars, genericVars, flattenVars, statsVars, view>>

\* the Sender is dropped after the JoinSet
DriverDropTx ==
    /\ driver = "dropping"
    /\ closed' = TRUE
    /\ driver' = "returned"
    /\ UNCHANGED <<realtime, configured, res, nd_file, outcome, cancelled, serial, sent, aborting>>
    /\ UNCHANGED <<watcherVars, resolveVars, genericVars, flattenVars, statsVars, view>>

\* one turn of the loop of read_file over the lines of the file
ReplayLine ==
    /\ driver = "reading"
    /\ serial < MaxSnapshots
    /\ serial' = serial + 1
    /\ \E point \in {"empty", "json", "garbage"} :
         IF point = "empty"
         THEN UNCHANGED <<sent, driver, outcome, aborting, w_pc>>
         ELSE IF point = "json" /\ ReceiverCount > 0
              THEN /\ sent' = Append(sent, Len(sent) + 1)
                   /\ UNCHANGED <<driver, outcome, aborting, w_pc>>
              ELSE /\ outcome' = IF point = "garbage" THEN "err" ELSE "send err"
                   /\ aborting' = TRUE
                   /\ w_pc' = AbortAll(w_pc)
                   /\ driver' = "dropping"
                   /\ UNCHANGED sent
    /\ UNCHANGED <<realtime, configured, res, nd_file, cancelled, closed>>
    /\ UNCHANGED <<rx2, watch, count, w_applied, w_interim, w_final, w_errors, w_first, w_fail>>
    /\ UNCHANGED <<resolveVars, genericVars, flattenVars, statsVars, view>>

\* the file is exhausted: drop(tx)
ReplayEof ==
    /\ driver = "reading"
    /\ closed' = TRUE
    /\ driver' = "joining"
    /\ UNCHANGED <<realtime, configured, res, nd_file, outcome, cancelled, serial, sent, aborting>>
    /\ UNCHANGED <<watcherVars, resolveVars, genericVars, flattenVars, statsVars, view>>

\* a slip: read_file returns without joining the tasks, which aborts them
ReplayJoined_nowait ==
    /\ driver = "joining"
    /\ outcome' = "ok"
    /\ aborting' = TRUE
    /\ w_pc' = AbortAll(w_pc)
    /\ driver' = "returned"
    /\ UNCHANGED <<realtime, configured, res, nd_file, cancelled, serial, sent, closed>>
    /\ UNCHANGED <<rx2, watch, count, w_applied, w_interim, w_final, w_errors, w_first, w_fail>>
    /\ UNCHANGED <<resolveVars, genericVars, flattenVars, statsVars, view>>

\* join_next() has returned None: every task has completed
ReplayJoined ==
    /\ driver = "joining"
    /\ \A w \in configured : w_pc[w] = "Terminated"
    /\ outcome' = "ok"
    /\ driver' = "returned"
    /\ UNCHANGED <<realtime, configured, res, nd_file, cancelled, serial, sent, closed, aborting>>
    /\ UNCHANGED <<watcherVars, resolveVars, genericVars, flattenVars, statsVars, view>>

WatcherStep(w) ==
    \/ WatcherStart(w)
    \/ WatcherRecvOk(w)
    \/ WatcherRecvErr(w)
    \/ WatcherPark(w)
    \/ WatcherCadence(w)
    \/ WatcherFinal(w)

Next ==
    \/ GenerateReaders
    \/ \E w \in Watchers : WatcherStep(w)
    \/ Cancel
    \/ DriverTick
    \/ DriverFetched
    \/ DriverReturn
    \/ DriverDropTx
    \/ ReplayLine
    \/ ReplayEof
    \/ ReplayJoined

Spec == WatchInit /\ [][Next]_vars

\* the executor runs every task that can run; get_stat returns; the select!
\* of watch, which picks among ready branches at random, takes the
\* cancelled() branch in the end; read_file runs on
Fairness ==
    /\ \A w \in Watchers : WF_vars(WatcherStep(w))
    /\ WF_vars(GenerateReaders)
    /\ WF_vars(DriverFetched)
    /\ SF_vars(DriverReturn)
    /\ WF_vars(DriverDropTx)
    /\ WF_vars(ReplayLine \/ ReplayEof)
    /\ WF_vars(ReplayJoined)

FairSpec == Spec /\ Fairness

\* watch with --ndjson: the live poll with the raw-snapshot log open
TeeInit ==
    /\ realtime = TRUE
    /\ configured \in SUBSET Watchers
    /\ driver = "setup"
    /\ outcome = "none"
    /\ cancelled = FALSE
    /\ serial = 0
    /\ sent = <<>>
    /\ closed = FALSE
    /\ aborting = FALSE
    /\ res = "none"
    /\ nd_file = NewFile
    /\ w_pc = [w \in Watchers |-> "Unspawned"]
    /\ rx2 = [w \in Watchers |-> 0]
    /\ watch = [w \in Watchers |-> Generic_new(<<>>, U64NoOp)]
    /\ count = [w \in Watchers |-> 0]
    /\ w_applied = [w \in Watchers |-> <<>>]
    /\ w_interim = [w \in Watchers |-> 0]
    /\ w_final = [w \in Watchers |-> 0]
    /\ w_errors = [w \in Watchers |-> 0]
    /\ w_first = [w \in Watchers |-> "none"]
    /\ w_fail = [w \in Watchers |-> "none"]
    /\ ResolveIdle
    /\ GenericIdle
    /\ FlattenIdle
    /\ StatsIdle
    /\ ViewIdle

TeeNext ==
    \/ GenerateReaders
    \/ \E w \in Watchers : WatcherStep(w)
    \/ Cancel
    \/ DriverTick
    \/ DriverFetched
    \/ DriverReturn
    \/ DriverDropTx

SpecTee == TeeInit /\ [][TeeNext]_vars

----------------------------------------------------------------------------
(* Properties of the resolver *)

\* the mapping reached from doc by following the first n segments, each of
\* which must name a nested mapping
RECURSIVE Descend(_, _, _)
Descend(doc, segs, n) ==
    IF n = 0 THEN [ok |-> TRUE, d |-> doc]
    ELSE LET p == Descend(doc, segs, n - 1)
         IN  IF p.ok /\ segs[n] \in DOMAIN p.d /\ p.d[segs[n]].t = "obj"
             THEN [ok |-> TRUE, d |-> p.d[segs[n]].m]
             ELSE [ok |-> FALSE, d |-> EmptyDoc]

\* C9: when the segments of the path name a chain of nested mappings ending
\* at a key that holds v, get_root_elem returns v.
C9_ResolveFindsValue ==
    r_pc = "resolved" =>
        LET segs == Split(r_path)
            n    == Len(segs)
            p    == Descend(r_doc, segs, n - 1)
        IN  (p.ok /\ segs[n] \in DOMAIN p.d) => r_out = p.d[segs[n]]

\* a three-segment path a.b.a resolved to the number it holds
C9_Witness ==
    /\ r_pc = "resolved"
    /\ r_path = <<"a", DOT, "b", DOT, "a">>
    /\ r_doc = KA :> Obj(KB :> Obj(KA :> Num(7) @@ KB :> Other))
    /\ r_out = Num(7)

\* C10: when some segment is absent, or a segment before the last names a
\* value that is not a mapping, get_root_elem returns nothing and does not
\* panic.
C10_ResolveFailsSilently ==
    r_pc = "resolved" =>
        LET segs == Split(r_path)
            n    == Len(segs)
            broken == \E i \in 1..n :
                        LET p == Descend(r_doc, segs, i - 1)
                        IN  p.ok /\ ( \/ segs[i] \notin DOMAIN p.d
                                      \/ (i < n /\ p.d[segs[i]].t # "obj") )
        IN  /\ r_out.t # "panic"
            /\ broken => r_out = None

\* a.b holds a number and a.b.a is requested
C10_Witness ==
    /\ r_pc = "resolved"
    /\ r_path = <<"a", DOT, "b", DOT, "a">>
    /\ MapGet(r_doc, KA).t = "obj"
    /\ MapGet(MapGet(r_doc, KA).m, KB).t = "num"
    /\ r_out = None

----------------------------------------------------------------------------
(* Properties of lazy discovery in the Generic group *)

\* the key chains that lead from a mapping to its numeric leaves
RECURSIVE LeafChains(_)
LeafChains(d) ==
    {<<k>> : k \in {x \in DOMAIN d : d[x].t = "num"}}
    \cup UNION { {<<k>> \o c : c \in LeafChains(d[k].m)} :
                 k \in {x \in DOMAIN d : d[x].t = "obj"} }

\* the value found by following a key chain
RECURSIVE ValueAt(_, _)
ValueAt(d, chain) ==
    IF Len(chain) = 1 THEN d[chain[1]]
    ELSE ValueAt(d[chain[1]].m, Tail(chain))

\* a mapping with every number replaced by 0
RECURSIVE Shape(_)
Shape(d) ==
    [k \in DOMAIN d |->
        IF d[k].t = "obj" THEN Obj(Shape(d[k].m))
        ELSE IF d[k].t = "num" THEN Num(0)
        ELSE d[k]]

DotFree(chain) == \A i \in 1..Len(chain) : \A n \in 1..Len(chain[i]) : chain[i][n] # DOT

\* the series key of the leaf at the end of a chain below path p
LeafKey(p, chain) == DotJoin(p, ReduceJoin(chain))

\* the processed values of those values of a sequence that decode
RECURSIVE ProcessedOf(_, _)
ProcessedOf(ty, vals) ==
    IF vals = <<>> THEN <<>>
    ELSE LET raw == Decode(ty.inT, Head(vals))
         IN  (IF raw.ok THEN <<Process(ty.proc, raw.v)>> ELSE <<>>)
             \o ProcessedOf(ty, Tail(vals))

\* one requested path, resolving in every snapshot fed so far to a
\* sub-document of the shape it had in the first
SubmapCase ==
    /\ Len(g.user_key) = 1
    /\ Len(g_fed) >= 1
    /\ \A i \in 1..Len(g_fed) :
        /\ get_root_elem(g_fed[i], g.user_key[1]).t = "obj"
        /\ Shape(get_root_elem(g_fed[i], g.user_key[1]).m)
             = Shape(get_root_elem(g_fed[1], g.user_key[1]).m)

SubAt(i) == get_root_elem(g_fed[i], g.user_key[1]).m

\* C7 as claimed: one series per numeric leaf of the sub-document, keyed
\* path + "." + suffix, each holding after k updates with snapshots of that
\* shape exactly the k processed leaf values in snapshot order.
C7_AsClaimed ==
    SubmapCase =>
        LET p == g.user_key[1]
            k == Len(g_fed)
            chains == LeafChains(SubAt(1))
        IN  /\ Len(g.data) = Cardinality(chains)
            /\ \A c \in chains :
                 \E j \in 1..Len(g.data) :
                    /\ g.data[j].key = LeafKey(p, c)
                    /\ g.data[j].values =
                         [i \in 1..k |->
                            Process(g.ty.proc, Decode(g.ty.inT, ValueAt(SubAt(i), c)).v)]

\* C7 amended: one series per numeric leaf of the sub-document, keyed
\* path + "." + suffix; after k updates with snapshots of that shape every
\* series holds, in snapshot order, the processed values of the snapshots in
\* which its key resolves to a number that decodes into the input type, and
\* for a leaf reached through keys without a dot these are the processed
\* leaf values that decode (all k of them when every one decodes).
C7_SubmapSeries ==
    SubmapCase =>
        LET p == g.user_key[1]
            k == Len(g_fed)
            chains == LeafChains(SubAt(1))
        IN  /\ Len(g.data) = Cardinality(chains)
            /\ {g.data[j].key : j \in 1..Len(g.data)} = {LeafKey(p, c) : c \in chains}
            /\ \A j \in 1..Len(g.data) :
                 g.data[j].values =
                    ProcessedOf(g.ty, [i \in 1..k |-> get_root_elem(g_fed[i], g.data[j].key)])
            /\ \A c \in chains :
                 DotFree(c) =>
                    \A j \in 1..Len(g.data) :
                        g.data[j].key = LeafKey(p, c) =>
                            /\ g.data[j].values =
                                 ProcessedOf(g.ty, [i \in 1..k |-> ValueAt(SubAt(i), c)])
                            /\ (\A i \in 1..k : Decode(g.ty.inT, ValueAt(SubAt(i), c)).ok)
                                 => g.data[j].values =
                                      [i \in 1..k |->
                                         Process(g.ty.proc, Decode(g.ty.inT, ValueAt(SubAt(i), c)).v)]

\* the run of test_submap_generic: values 42,42,63 and 5,5,8
C7_Witness ==
    /\ g.user_key = <<PA>>
    /\ g.ty = U64NoOp
    /\ g_fed = <<NestedJson(42, 5), NestedJson(42, 5), NestedJson(63, 8)>>
    /\ Generic_plot(g) = (<<"a", DOT, "a", DOT, "b">> :> <<42, 42, 63>>
                          @@ <<"a", DOT, "b">> :> <<5, 5, 8>>)

\* discovery registers nothing for path p on snapshot root
FailsDiscovery(self, root, p) ==
    LET new_data == get_root_elem(root, p)
    IN  \/ new_data.t \notin {"num", "obj"}
        \/ new_data.t = "num" /\ ~Decode(self.ty.outT, new_data).ok

\* the keys discovery is to register for path p on snapshot root
ExpectedKeys(self, root, p) ==
    LET new_data == get_root_elem(root, p)
    IN  IF FailsDiscovery(self, root, p) THEN {}
        ELSE IF new_data.t = "num" THEN {p}
        ELSE {LeafKey(p, c) : c \in LeafChains(new_data.m)}

\* the number of series discovery is to register for the first n paths
RECURSIVE ExpectedCount(_, _, _)
ExpectedCount(self, root, n) ==
    IF n = 0 THEN 0
    ELSE LET p == self.user_key[n]
             new_data == get_root_elem(root, p)
             here == IF FailsDiscovery(self, root, p) THEN 0
                     ELSE IF new_data.t = "num" THEN 1
                     ELSE Cardinality(LeafChains(new_data.m))
         IN  ExpectedCount(self, root, n - 1) + here

IsPrefix(s1, s2) == Len(s1) <= Len(s2) /\ SubSeq(s2, 1, Len(s1)) = s1

KeysOf(data) == [j \in 1..Len(data) |-> data[j].key]

\* C8 as claimed (for a group with one requested path): a path that fails
\* on the first update call has no series, keyed by it or below it, after
\* that call or any later one.
C8_AsClaimed ==
    (Len(g.user_key) = 1 /\ Len(g_fed) >= 1) =>
        LET p == g.user_key[1]
        IN  FailsDiscovery(g, g_fed[1], p) =>
                \A j \in 1..Len(g.data) :
                    /\ g.data[j].key # p
                    /\ ~IsPrefix(p \o <<DOT>>, g.data[j].key)

\* C8 amended: an update call that runs discovery registers nothing on
\* behalf of a requested path that fails to resolve, resolves to neither a
\* number nor a sub-document, or does not decode: the series it registers
\* are exactly those of the other requested paths; and an update call on a
\* group that already has a series registers none. (A group without any
\* series runs discovery again on every update call.)
C8_FailedPathNotRegistered ==
    [][ g' # g =>
          LET root == g_fed'[Len(g_fed')]
          IN  IF g.data = <<>>
              THEN /\ Len(g'.data) = ExpectedCount(g, root, Len(g.user_key))
                   /\ \A j \in 1..Len(g'.data) :
                        \E n \in 1..Len(g.user_key) :
                            g'.data[j].key \in ExpectedKeys(g, root, g.user_key[n])
              ELSE KeysOf(g'.data) = KeysOf(g.data) ]_vars

\* a.b failed on the first snapshot while a was registered; a later
\* snapshot holds a number at a.b, and a.b still has no series
C8_Witness ==
    /\ g.user_key = <<PA, PAB>>
    /\ Len(g_fed) >= 2
    /\ g_fed[1] = (KA :> Num(7))
    /\ g_fed[2] = NestedJson(42, 5)
    /\ KeysOf(g.data) = <<PA>>

----------------------------------------------------------------------------
(* Properties of flatten_map *)

\* what flatten_map yields: items that are a suffix and nothing else
FlattenYield == {[suffix |-> f_out[i]] : i \in 1..Len(f_out)}

\* C11 as claimed: flatten yields one (suffix, value) pair for every numeric
\* leaf of the sub-document and nothing else.
C11_AsClaimed ==
    f_pc = "flattened" =>
        /\ Len(f_out) = Cardinality(LeafChains(f_doc))
        /\ FlattenYield = {[suffix |-> ReduceJoin(c), value |-> ValueAt(f_doc, c).v] :
                              c \in LeafChains(f_doc)}

\* C11 amended: flatten yields one dot-joined suffix, without a value, for
\* every numeric leaf reachable through nested mappings, and nothing for a
\* leaf that is not a number; for the sub-document of the example it yields
\* the suffixes a.b and b (l3.metric and metric).
C11_FlattenSuffixes ==
    f_pc = "flattened" =>
        LET chains == LeafChains(f_doc)
        IN  /\ Len(f_out) = Cardinality(chains)
            /\ \A k \in {f_out[i] : i \in 1..Len(f_out)} \cup {ReduceJoin(c) : c \in chains} :
                 Cardinality({i \in 1..Len(f_out) : f_out[i] = k})
                    = Cardinality({c \in chains : ReduceJoin(c) = k})
            /\ f_doc = FlattenExample =>
                 {f_out[i] : i \in 1..Len(f_out)} = {<<"a", DOT, "b">>, <<"b">>}

\* the sub-document of test_flatten, flattened
C11_Witness ==
    /\ f_pc = "flattened"
    /\ f_doc = FlattenExample
    /\ f_out = << <<"a", DOT, "b">>, <<"b">> >>

----------------------------------------------------------------------------
(* Properties of MetricField and StatsGroup *)

\* the numbers found at a path in the snapshots fed so far, in order
RECURSIVE NumbersAt(_, _)
NumbersAt(fed, path) ==
    IF fed = <<>> THEN <<>>
    ELSE LET found == get_root_elem(fed[Len(fed)], path)
         IN  NumbersAt(SubSeq(fed, 1, Len(fed) - 1), path)
             \o (IF found.t = "num" THEN <<found.v>> ELSE <<>>)

\* C12: after one update call the counter is 1, a field whose path holds a
\* number in the snapshot has a series of length 1 and a field whose path is
\* absent has a series of length 0: nothing is pushed in place of the
\* missing value.
C12_AbsentFieldSkipped ==
    Len(s_fed) = 1 =>
        /\ StatsGroup_len(stats) = 1
        /\ \A i \in 1..Len(stats.fields) :
             LET found == get_root_elem(s_fed[1], MetricField_name(stats.fields[i]))
             IN  /\ found.t = "num" => Len(stats.fields[i].data) = 1
                 /\ found.t = "none" => stats.fields[i].data = <<>>

\* two fields, a.a.b absent from the snapshot and a.b present
C12_Witness ==
    /\ Len(stats.fields) = 2
    /\ s_fed = <<KA :> Obj(KB :> Num(3))>>
    /\ MetricField_name(stats.fields[1]) = PAAB
    /\ MetricField_name(stats.fields[2]) = PAB
    /\ StatsGroup_len(stats) = 1
    /\ Len(stats.fields[1].data) = 0
    /\ Len(stats.fields[2].data) = 1

\* C13: after any sequence of updates plot() has a key for a field exactly
\* when the field is not hidden, while a hidden field has accumulated every
\* number found at its path and its last() and max() are the most recent
\* and the largest of them (0 when there is none).
C13_HiddenExcluded ==
    /\ \A i \in 1..Len(stats.fields) :
         (MetricField_name(stats.fields[i]) \in DOMAIN StatsGroup_plot(stats))
            <=> ~MetricField_hidden(stats.fields[i])
    /\ view.op = "plot" =>
         DOMAIN view.out = {MetricField_name(stats.fields[i]) :
                              i \in {j \in 1..Len(stats.fields) : ~stats.fields[j].hidden}}
    /\ \A i \in 1..Len(stats.fields) :
         MetricField_hidden(stats.fields[i]) =>
            LET f == stats.fields[i]
                nums == NumbersAt(s_fed, MetricField_name(f))
            IN  /\ Len(f.data) = Len(nums)
                /\ \A j \in 1..Len(nums) :
                     f.data[j] = IF f.variant = "kb" THEN AsF64(nums[j]) ELSE nums[j]
                /\ nums = <<>> => MetricField_last(f) = 0 /\ MetricField_max(f) = 0
                /\ nums # <<>> =>
                     /\ MetricField_last(f) = AsF64(nums[Len(nums)])
                     /\ \E j \in 1..Len(nums) : MetricField_max(f) = AsF64(nums[j])
                     /\ \A j \in 1..Len(nums) : MetricField_max(f) >= AsF64(nums[j])

\* the group of test_hidden_metrics after two updates and a plot(), the
\* larger value pushed first
C13_Witness ==
    /\ Len(stats.fields) = 2
    /\ stats.fields[1].hidden /\ ~stats.fields[2].hidden
    /\ s_fed = <<NestedJson(63, 8), NestedJson(42, 5)>>
    /\ view.op = "plot"
    /\ DOMAIN view.out = {MetricField_name(stats.fields[2])}
    /\ stats.fields[1].data = <<63, 42>>
    /\ MetricField_max(stats.fields[1]) = AsF64(63)
    /\ MetricField_last(stats.fields[1]) = AsF64(42)

\* C14 as claimed: for a Scaled field (GenericMetricFields, which keeps the
\* raw numbers) generate_data() is every pushed raw value divided by 1000, in
\* push order, and last() is the most recent raw value divided by 1000, 0
\* when nothing was pushed: a pushed 1000 gives last() = 1.0 and
\* generate_data() = [1.0].
C14_AsClaimed ==
    \A i \in 1..Len(stats.fields) :
        LET f == stats.fields[i]
            raw == NumbersAt(s_fed, MetricField_name(f))
        IN  f.variant = "generic" =>
                /\ MetricField_generate_data(f) =
                      [j \in 1..Len(raw) |-> AsF64(raw[j]) \div 1000]
                /\ MetricField_last(f) =
                      IF raw = <<>> THEN 0 ELSE AsF64(raw[Len(raw)]) \div 1000
                /\ raw = <<1000>> =>
                      /\ MetricField_generate_data(f) = <<AsF64(1)>>
                      /\ MetricField_last(f) = AsF64(1)

\* C15 as claimed: a StatsGroup of GenericMetricFields plots, for a visible
\* field whose path held v1..vk, exactly v1..vk as floats, unscaled and in
\* snapshot order.
C15_AsClaimed ==
    \A i \in 1..Len(stats.fields) :
        LET f == stats.fields[i]
            v == NumbersAt(s_fed, MetricField_name(f))
        IN  (f.variant = "generic" /\ ~MetricField_hidden(f)) =>
                StatsGroup_plot(stats)[MetricField_name(f)] =
                    [j \in 1..Len(v) |-> AsF64(v[j])]

----------------------------------------------------------------------------
(* Properties shared by StatsGroup and Generic *)

\* C16: every call of update on a StatsGroup or on a Generic group raises
\* its counter (len() / datapoints()) by exactly one, whether or not a field
\* received a value, and no other call changes the counter: the counter is
\* the number of update calls made.
C16_CounterCountsUpdates ==
    /\ [](/\ StatsGroup_len(stats) = Len(s_fed)
          /\ Generic_datapoints(g) = Len(g_fed)
          /\ (view.op = "len" => view.out = Len(s_fed))
          /\ (view.op = "datapoints" => view.out = Len(g_fed)))
    /\ [][/\ StatsGroup_len(stats)' =
               (IF s_fed' # s_fed THEN StatsGroup_len(stats) + 1 ELSE StatsGroup_len(stats))
          /\ Generic_datapoints(g)' =
               (IF g_fed' # g_fed THEN Generic_datapoints(g) + 1 ELSE Generic_datapoints(g))]_vars

\* two updates that brought no value to any field, then len()
C16_Witness ==
    /\ Len(s_fed) = 2
    /\ stats.fields # <<>>
    /\ \A i \in 1..Len(stats.fields) : stats.fields[i].data = <<>>
    /\ view = Returned("len", 2)

\* what one update call appends to the series of a Generic group held
\* under key: the processed value when the key resolves to a value that
\* decodes into the input type, nothing otherwise
GenericDelta(ty, root, key) ==
    LET raw == Decode(ty.inT, get_root_elem(root, key))
    IN  IF raw.ok THEN <<Process(ty.proc, raw.v)>> ELSE <<>>

\* what one update call pushes into a field of a StatsGroup: the number at
\* its path, nothing when the path is absent or holds something else
StatsDelta(f, root) ==
    LET found == get_root_elem(root, MetricField_name(f))
    IN  IF found.t # "num" THEN <<>>
        ELSE IF f.variant = "kb" THEN <<AsF64(found.v)>> ELSE <<found.v>>

\* C20: in one update call a field whose value is there but is not of the
\* expected numeric type receives nothing, and every field of the group
\* receives exactly what its own path holds in the snapshot, whatever the
\* other fields met.
C20_MismatchSkipsOnlyItself ==
    [][/\ s_fed' # s_fed =>
            LET root == s_fed'[Len(s_fed')]
            IN  /\ Len(stats'.fields) = Len(stats.fields)
                /\ \A i \in 1..Len(stats.fields) :
                     stats'.fields[i].data =
                        stats.fields[i].data \o StatsDelta(stats.fields[i], root)
       /\ g_fed' # g_fed =>
            LET root == g_fed'[Len(g_fed')]
                base == IF g.data = <<>> THEN init_metrics(g, root) ELSE g.data
            IN  /\ Len(g'.data) = Len(base)
                /\ \A j \in 1..Len(base) :
                     /\ g'.data[j].key = base[j].key
                     /\ g'.data[j].values =
                          base[j].values \o GenericDelta(g.ty, root, base[j].key)]_vars

\* the fields a, a.b, b updated with a = {a: {b: 42}, b: 5}: a holds a
\* mapping and receives nothing, a.b receives 5
C20_Witness ==
    /\ Len(stats.fields) = 3
    /\ s_fed = <<NestedJson(42, 5)>>
    /\ MetricField_name(stats.fields[1]) = PA
    /\ stats.fields[1].data = <<>>
    /\ MetricField_name(stats.fields[2]) = PAB
    /\ stats.fields[2].data = <<5>>

----------------------------------------------------------------------------
(* Properties of the distribution of snapshots to the watchers *)

\* C1: every configured watcher is subscribed before the first snapshot is
\* sent, and the snapshots a watcher has applied are a prefix of the
\* snapshots sent, in the order sent: none skipped, repeated or reordered.
C1_AppliedIsPrefixOfSent ==
    /\ sent # <<>> => \A w \in configured : w_pc[w] # "Unspawned"
    /\ \A w \in Watchers : IsPrefix(w_applied[w], sent)

\* two watchers at different points of the same stream
C1_Witness ==
    /\ Len(w_applied[1]) >= 2
    /\ Len(w_applied[2]) >= 1
    /\ Len(w_applied[1]) > Len(w_applied[2])
    /\ Len(sent) > Len(w_applied[1])

\* C2: a watcher whose first recv finds Capacity + 1 (or more) snapshots
\* sent gets an overrun, leaves the loop as on closure, applies no snapshot,
\* makes no interim render, makes exactly one final render and reaches
\* Terminated.
C2_OverrunTerminates ==
    /\ [](\A w \in Watchers :
            w_first[w] = "overrun" =>
                /\ w_fail[w] = "lagged"
                /\ w_applied[w] = <<>>
                /\ w_interim[w] = 0
                /\ \/ w_pc[w] = "Draining" /\ w_final[w] = 0
                   \/ w_pc[w] = "Terminated" /\ w_final[w] = 1)
    /\ \A w \in Watchers :
            (w_first[w] = "overrun") ~> (w_pc[w] = "Terminated" /\ w_final[w] = 1)

\* exactly Capacity + 1 snapshots were sent before the first recv
C2_Witness ==
    \E w \in Watchers :
        /\ Len(sent) = Capacity + 1
        /\ w_first[w] = "overrun"
        /\ w_pc[w] = "Terminated"
        /\ w_final[w] = 1
        /\ w_applied[w] = <<>>

\* C3 as claimed: in live mode, once the driver has returned the channel
\* is closed, and no watcher task that had started ends without its final
\* render: a task ends only through Draining.
C3_AsClaimed ==
    realtime =>
        /\ driver = "returned" => closed
        /\ \A w \in Watchers :
             w_pc[w] \in {"Aborted", "Terminated"} => w_final[w] = 1

\* C4: a watcher whose recv has failed (closed or overrun) applies no
\* further snapshot and makes no interim render, makes exactly one final
\* render and then terminates.
C4_FailedRecvDrains ==
    /\ [](\A w \in Watchers :
            w_fail[w] # "none" =>
                \/ w_pc[w] = "Draining" /\ w_final[w] = 0
                \/ w_pc[w] = "Terminated" /\ w_final[w] = 1)
    /\ [][\A w \in Watchers :
            w_fail[w] # "none" =>
                /\ w_applied'[w] = w_applied[w]
                /\ count'[w] = count[w]
                /\ w_interim'[w] = w_interim[w]]_vars
    /\ \A w \in Watchers :
            (w_fail[w] # "none") ~> (w_pc[w] = "Terminated" /\ w_final[w] = 1)

\* a watcher that applied snapshots, found the channel closed and terminated
C4_Witness ==
    \E w \in Watchers :
        /\ w_fail[w] = "closed"
        /\ Len(w_applied[w]) >= 2
        /\ w_pc[w] = "Terminated"
        /\ w_final[w] = 1

\* C5: in live mode the watcher makes an interim render right after
\* applying its n-th snapshot exactly when n is a positive multiple of 5: a
\* watcher that has applied n snapshots has made floor(n/5) interim renders
\* (the one for the snapshot just applied is made by the next step).
C5_InterimEveryFifth ==
    realtime =>
        \A w \in Watchers :
            /\ count[w] = Len(w_applied[w])
            /\ w_interim[w] = IF w_pc[w] = "Applied"
                              THEN (count[w] - 1) \div Cadence
                              ELSE count[w] \div Cadence

\* one interim render after the fifth snapshot, none after the sixth
C5_Witness ==
    /\ realtime
    /\ \E w \in Watchers :
        /\ count[w] = Cadence + 1
        /\ w_pc[w] # "Applied"
        /\ w_interim[w] = 1

\* C6: in replay mode a watcher makes no interim render however many
\* snapshots it applies; its only render is the final one, made once when
\* it terminates, and unless read_file fails every spawned watcher comes to
\* terminate.
C6_ReplayRendersOnce ==
    /\ [](~realtime =>
            \A w \in Watchers :
                /\ w_interim[w] = 0
                /\ w_final[w] = IF w_pc[w] = "Terminated" THEN 1 ELSE 0)
    /\ \A w \in Watchers :
            (~realtime /\ w_pc[w] = "Uninitialized")
                ~> (outcome = "err" \/ (w_pc[w] = "Terminated" /\ w_final[w] = 1))

\* a replay watcher that went past the cadence and terminated
C6_Witness ==
    /\ ~realtime
    /\ \E w \in Watchers :
        /\ count[w] >= Cadence
        /\ w_pc[w] = "Terminated"
        /\ w_interim[w] = 0
        /\ w_final[w] = 1

----------------------------------------------------------------------------
(* Properties of the driver and of the watchers taken together *)

\* the watcher task is between its start and the end of its loop
Running(w) == w_pc[w] \in {"Polling", "Parked", "Applied"}

\* C17: whatever the watchers are doing (behind, rendering, overrun,
\* terminated) the driver's send is never held up, a watcher that is at its
\* recv with a snapshot retained for it can take it, and every running
\* watcher that has snapshots to apply comes to have applied all that were
\* sent, unless it is itself overrun or aborted.
C17_WatchersDoNotBlock ==
    /\ [](driver = "fetching" => ENABLED DriverFetched)
    /\ [](driver = "reading" /\ serial < MaxSnapshots => ENABLED ReplayLine)
    /\ [](\A w \in Watchers :
            (/\ w_pc[w] \in {"Polling", "Parked"}
             /\ rx2[w] < Len(sent)
             /\ Len(sent) - rx2[w] <= Capacity) => ENABLED WatcherRecvOk(w))
    /\ \A w \in Watchers :
            (Running(w) /\ Len(w_applied[w]) < Len(sent))
                ~> \/ Len(w_applied[w]) = Len(sent)
                   \/ w_fail[w] = "lagged"
                   \/ w_pc[w] = "Aborted"

\* watcher 2 was overrun and has terminated, the driver has sent every
\* snapshot all the same and watcher 1 has applied them all
C17_Witness ==
    /\ w_fail[2] = "lagged"
    /\ w_pc[2] = "Terminated"
    /\ Len(sent) = MaxSnapshots
    /\ Len(w_applied[1]) = MaxSnapshots

\* C18 as claimed: once the token is cancelled no further snapshot is sent,
\* and watch comes to return.
C18_AsClaimed ==
    /\ [][cancelled => sent' = sent]_vars
    /\ cancelled ~> (driver = "returned")

\* C19: an error of plot() is logged and changes nothing else: after a
\* failed interim render the watcher is back at its recv, after a failed
\* final render the task is complete, the driver and the other watchers are
\* as they were, and a watcher that has logged an error still comes to
\* apply what was sent.
C19_RenderFailureNotFatal ==
    /\ [][\A w \in Watchers :
            w_errors'[w] # w_errors[w] =>
                /\ w_errors'[w] = w_errors[w] + 1
                /\ w_pc[w] \in {"Applied", "Draining"}
                /\ w_pc[w] = "Applied" => w_pc'[w] = "Polling"
                /\ w_pc[w] = "Draining" => w_pc'[w] = "Terminated"
                /\ UNCHANGED <<driverVars, rx2, watch, count, w_applied, w_fail>>
                /\ \A o \in Watchers \ {w} :
                     /\ w_pc'[o] = w_pc[o]
                     /\ w_errors'[o] = w_errors[o]]_vars
    /\ \A w \in Watchers :
            (Running(w) /\ w_errors[w] > 0 /\ Len(w_applied[w]) < Len(sent))
                ~> \/ Len(w_applied[w]) = Len(sent)
                   \/ w_fail[w] = "lagged"
                   \/ w_pc[w] = "Aborted"

\* the interim render after the fifth snapshot failed and the watcher has
\* applied the sixth
C19_Witness ==
    /\ realtime
    /\ \E w \in Watchers :
        /\ w_interim[w] = 1
        /\ w_errors[w] = 1
        /\ w_final[w] = 0
        /\ count[w] = Cadence + 1
        /\ Len(w_applied[w]) = Cadence + 1

\* C21: a run that spawns no watcher fails with an error and enters
\* neither the poll loop nor the replay loop.
C21_AsClaimed ==
    (configured = {} /\ driver # "setup") => outcome \in {"err", "send err"}

----------------------------------------------------------------------------
(* Properties of the series of a Generic group *)

\* the requested path p resolves, in every snapshot fed so far, to a single
\* number that decodes into the input type of the group
SingleNumberPath(p) ==
    \A i \in 1..Len(g_fed) : Decode(g.ty.inT, get_root_elem(g_fed[i], p)).ok

\* C22: for a requested path that resolves to a single number in every
\* snapshot, after k update calls the series keyed by that path holds
\* exactly k values, the i-th being the Processor applied to the value
\* decoded from the i-th snapshot.
C22_AsClaimed ==
    \A j \in 1..Len(g.data) :
        (\E n \in 1..Len(g.user_key) :
            g.user_key[n] = g.data[j].key /\ SingleNumberPath(g.user_key[n]))
        => g.data[j].values =
             [i \in 1..Len(g_fed) |->
                Process(g.ty.proc, Decode(g.ty.inT, get_root_elem(g_fed[i], g.data[j].key)).v)]

\* C23: every registered series holds at most datapoints() values, so every
\* point index of the plotted data (0 .. Len - 1) lies below the extent
\* 0usize..datapoints() of the x axis.
C23_AsClaimed ==
    \A k \in DOMAIN Generic_plot(g) :
        \A p_idx \in 0..(Len(Generic_plot(g)[k]) - 1) : p_idx < Generic_datapoints(g)

\* C24: once the group has a registered series, no later update adds,
\* removes or renames one, even when the snapshot has new numeric leaves
\* under a requested prefix or has lost existing ones.
C24_KeysFixedOnceDiscovered ==
    [][g.data # <<>> => KeysOf(g'.data) = KeysOf(g.data)]_vars

\* a is requested; discovered from {a: {b: 3}}, then updated with
\* {a: {a: {b: 42}, b: 5}} (a new leaf a.a.b) and with {a: 7} (a.b lost)
C24_Witness ==
    /\ g.user_key = <<PA>>
    /\ g_fed = <<KA :> Obj(KB :> Num(3)), NestedJson(42, 5), KA :> Num(7)>>
    /\ KeysOf(g.data) = <<PAB>>

----------------------------------------------------------------------------
(* Properties of the series of either kind of group *)

\* C25: series are append-only: an update call leaves the values already
\* stored in every series or field unchanged and in order: what a series
\* held before the call is a prefix of what it holds after it, and it has
\* grown by at most one value.
C25_AppendOnly ==
    [][/\ g_fed' # g_fed =>
            \A j \in 1..Len(g.data) :
                /\ g'.data[j].key = g.data[j].key
                /\ IsPrefix(g.data[j].values, g'.data[j].values)
                /\ Len(g'.data[j].values) <= Len(g.data[j].values) + 1
       /\ s_fed' # s_fed =>
            \A i \in 1..Len(stats.fields) :
                /\ MetricField_name(stats'.fields[i]) = MetricField_name(stats.fields[i])
                /\ IsPrefix(stats.fields[i].data, stats'.fields[i].data)
                /\ Len(stats'.fields[i].data) <= Len(stats.fields[i].data) + 1]_vars

\* a submap series that received two different values from two snapshots
C25_Witness ==
    /\ g.user_key = <<PA>>
    /\ g.ty = U64NoOp
    /\ g_fed = <<NestedJson(42, 5), NestedJson(63, 8)>>
    /\ \E j \in 1..Len(g.data) : g.data[j].key = PAB /\ g.data[j].values = <<5, 8>>

----------------------------------------------------------------------------
(* Properties of the replay of a file *)

\* C26: a replay in which every line parses terminates: read_file returns,
\* the channel is closed once the last line has been sent and nothing is
\* sent after that, and when read_file returns every watcher task has
\* terminated, having made its final render.
C26_ReplayTerminates ==
    /\ (~realtime) ~> (driver = "returned")
    /\ [][closed => sent' = sent]_vars
    /\ []((~realtime /\ driver = "returned" /\ outcome # "err") =>
            /\ closed
            /\ \A w \in configured : w_pc[w] = "Terminated" /\ w_final[w] = 1)

\* a replay of more lines than the channel retains has returned Ok with
\* both watchers terminated after their final render
C26_Witness ==
    /\ ~realtime
    /\ configured = Watchers
    /\ driver = "returned"
    /\ outcome = "ok"
    /\ Len(sent) > Capacity
    /\ \A w \in Watchers : w_pc[w] = "Terminated" /\ w_final[w] = 1

\* C27: in a replay every watcher has applied every snapshot of the file, in
\* file order, when it makes its final render, whatever the number of lines
\* relative to the capacity of the channel.
C27_AsClaimed ==
    \A w \in Watchers :
        (~realtime /\ w_final[w] = 1) => w_applied[w] = sent

----------------------------------------------------------------------------
(* Properties of the live poll *)

\* C28: a tick on which get_stat returns Err (the fetch failed, or the body
\* does not parse) broadcasts nothing, changes nothing of any watcher, and
\* does not end the loop of watch: it is back at its select!, where the next
\* tick can be taken and a cancellation is still served.
C28_FailedTickSkipped ==
    /\ [][(driver = "fetching" /\ res' = "Err") =>
            /\ sent' = sent
            /\ UNCHANGED watcherVars
            /\ driver' = "select"
            /\ outcome' = "none"
            /\ ~closed'
            /\ ~aborting']_vars
    /\ []((driver = "select" /\ res = "Err" /\ serial < MaxSnapshots) => ENABLED DriverTick)
    /\ (driver = "select" /\ res = "Err" /\ cancelled) ~> (driver = "returned" /\ outcome = "ok")

\* the second tick failed after the first snapshot was sent and applied
C28_Witness ==
    /\ realtime
    /\ driver = "select"
    /\ res = "Err"
    /\ serial = 2
    /\ sent = <<1>>
    /\ \E w \in Watchers : Running(w) /\ w_applied[w] = <<1>>

\* C29: with the raw-snapshot log open, every snapshot that has been
\* broadcast is a line of the log, and the call that broadcasts a snapshot
\* has appended its line to the log before it.
C29_LoggedBeforeBroadcast ==
    /\ [](nd_file.open =>
            \A i \in 1..Len(sent) :
                \E n \in 1..Len(nd_file.lines) : nd_file.lines[n] = sent[i])
    /\ [][(nd_file.open /\ sent' # sent) =>
            /\ sent' = Append(sent, sent'[Len(sent')])
            /\ nd_file'.lines = Append(nd_file.lines, sent'[Len(sent')])]_vars

\* two snapshots broadcast and logged, with a body that did not parse
\* logged between them
C29_Witness ==
    /\ nd_file.open
    /\ nd_file.lines = <<1, NotJson, 2>>
    /\ sent = <<1, 2>>

----------------------------------------------------------------------------
(* Properties of flatten_map together with get_root_elem *)

\* C30: every suffix that flatten_map returns for a sub-document resolves,
\* in that sub-document, to a number, whatever characters the keys contain.
C30_AsClaimed ==
    f_pc = "flattened" =>
        \A i \in 1..Len(f_out) : get_root_elem(f_doc, f_out[i]).t = "num"

----------------------------------------------------------------------------
(* Properties of the maximum of a field *)

\* C31: for either field variant and any pushes, max() is the largest
\* element of generate_data(), 0 when nothing was pushed.
C31_AsClaimed ==
    \A i \in 1..Len(stats.fields) :
        LET f == stats.fields[i]
            plotted == MetricField_generate_data(f)
        IN  MetricField_max(f) = IF plotted = <<>> THEN 0 ELSE ReduceMax(plotted)

----------------------------------------------------------------------------
(* Properties of the keys of a Generic group *)

\* C32: the keys of the registered series are pairwise distinct, so plot()
\* has one entry per registered series, also when the requested paths hold
\* a duplicate or a path together with one of its sub-paths.
C32_AsClaimed ==
    /\ \A i, j \in 1..Len(g.data) : i # j => g.data[i].key # g.data[j].key
    /\ Cardinality(DOMAIN Generic_plot(g)) = Len(g.data)

----------------------------------------------------------------------------
(* Properties of a replay of the log of a live run *)

\* the loop of read_file over the first n lines of a file: what it has sent
\* and how it stands, when the watchers keep up with it; receivers tells
\* whether a watcher was spawned
RECURSIVE read_file_upto(_, _, _)
read_file_upto(raw, n, receivers) ==
    IF n = 0 THEN [sent |-> <<>>, outcome |-> "ok"]
    ELSE LET acc == read_file_upto(raw, n - 1, receivers)
             result == from_str(raw[n])
         IN  IF acc.outcome # "ok" THEN acc
             ELSE IF result.kind = "Err" THEN [acc EXCEPT !.outcome = "err"]
             ELSE IF ~receivers THEN [acc EXCEPT !.outcome = "send err"]
             ELSE [acc EXCEPT !.sent = Append(@, result.v)]

\* C33: once a live run has returned, replaying the log it wrote, with the
\* same groups, sends exactly the snapshots the live run broadcast, in the
\* same order, and completes without error.
C33_AsClaimed ==
    (driver = "returned" /\ nd_file.open) =>
        LET replay == read_file_upto(nd_file.lines, Len(nd_file.lines), configured # {})
        IN  /\ replay.outcome = "ok"
            /\ replay.sent = sent

----------------------------------------------------------------------------
(* Properties of CustomMetrics *)

\* C34: a CustomMetrics built without a field list watches the default
\* path: after an update with a snapshot holding a number at a.a.b (for
\* beat.runtime.goroutines) the group has a series carrying that value.
C34_AsClaimed ==
    (g = Generic_update(CustomMetrics_new(NoFields), NestedJson(42, 5))
        /\ g_fed = <<NestedJson(42, 5)>>)
    => \E j \in 1..Len(g.data) :
          \E n \in 1..Len(g.data[j].values) : g.data[j].values[n] = AsF64(42)

====
